---- MODULE Spec2Model ----
(***************************************************************************)
(* Goal-allocation accounting engine of wealth-vn (src-core/src/goals and  *)
(* src-tauri/src/commands/goal.rs).                                        *)
(*                                                                         *)
(* The store is the three tables goals, goals_allocation and               *)
(* allocation_versions.  Every repository write is one closure executed    *)
(* on the serialized writer, so every write is one atomic step.  f64       *)
(* amounts and percentages are drawn from integers, which f64 represents   *)
(* exactly; dates are integers ordered as the "YYYY-MM-DD" strings are.    *)
(* An Option<T> is the empty sequence (None) or a one-element sequence.    *)
(***************************************************************************)
EXTENDS Integers, Sequences, FiniteSets, TLC

VARIABLES goals, goals_allocation, allocation_versions, lastOp, callers

vars == <<goals, goals_allocation, allocation_versions, lastOp, callers>>

store == <<goals, goals_allocation, allocation_versions>>

-----------------------------------------------------------------------------
(* Option<T> *)

None == <<>>

Some(x) == <<x>>

IsSome(o) == o # <<>>

Unwrap(o) == o[1]

(* Result<T>: Ok(value), a validation failure, or a store failure *)

Ok(v) == [kind |-> "Ok", value |-> v]

ValidationErr(v) == [kind |-> "Validation", value |-> v]

StoreErr == [kind |-> "Store", value |-> "NotFound"]

(* the value of Ok(()) *)
Unit == "()"

-----------------------------------------------------------------------------
(* Bounds of the model *)

MaxDate == 3

MaxBatch == 2

MaxVersions == 3

Dates == 1..MaxDate

OptDates == {None} \cup {Some(d) : d \in Dates}

GoalIds == {"g1", "g2"}

AccountIds == {"acc1", "acc2"}

AllocIds == {"A1", "A2"}

-----------------------------------------------------------------------------
(* Rows *)

Goal(gid, achieved, start, due) ==
    [id |-> gid, is_achieved |-> achieved, start_date |-> start, due_date |-> due]

GoalsAllocation(aid, legacy, gid, acc, start, end, init, amount, pct, adate) ==
    [id |-> aid, percent_allocation |-> legacy, goal_id |-> gid,
     account_id |-> acc, start_date |-> start, end_date |-> end,
     init_amount |-> init, allocation_amount |-> amount,
     allocation_percentage |-> pct, allocation_date |-> adate]

AllocationVersion(vid, aid, start, end) ==
    [id |-> vid, allocation_id |-> aid, version_start_date |-> start,
     version_end_date |-> end]

HasRow(table, rid) == \E r \in table : r.id = rid

RowById(table, rid) == CHOOSE r \in table : r.id = rid

(* #[derive(AsChangeset)] without treat_none_as_null: the primary key is   *)
(* never assigned and a field whose value is None is left as stored.       *)
AllocationChangeset(row, a) ==
    [row EXCEPT
        !.percent_allocation = a.percent_allocation,
        !.goal_id = a.goal_id,
        !.account_id = a.account_id,
        !.start_date = IF IsSome(a.start_date) THEN a.start_date ELSE @,
        !.end_date = IF IsSome(a.end_date) THEN a.end_date ELSE @,
        !.init_amount = a.init_amount,
        !.allocation_amount = a.allocation_amount,
        !.allocation_percentage = a.allocation_percentage,
        !.allocation_date = IF IsSome(a.allocation_date) THEN a.allocation_date ELSE @]

GoalChangeset(row, g) ==
    [row EXCEPT
        !.is_achieved = g.is_achieved,
        !.start_date = IF IsSome(g.start_date) THEN g.start_date ELSE @,
        !.due_date = IF IsSome(g.due_date) THEN g.due_date ELSE @]

-----------------------------------------------------------------------------
(* Repository reads *)

load_goals(gs) == gs

get_allocations_for_account(allocs, account_id) ==
    {a \in allocs : a.account_id = account_id}

get_allocations_for_goal(allocs, goal_id) ==
    {a \in allocs : a.goal_id = goal_id}

(* inner join with goals, filtered on is_achieved = false *)
load_allocations_for_non_achieved_goals(gs, allocs) ==
    {a \in allocs : \E g \in gs : g.id = a.goal_id /\ ~g.is_achieved}

(* a NULL start_date or end_date never satisfies the SQL comparison *)
get_allocations_for_account_on_date(allocs, account_id, query_date) ==
    {a \in allocs : /\ a.account_id = account_id
                    /\ IsSome(a.start_date) /\ Unwrap(a.start_date) <= query_date
                    /\ IsSome(a.end_date) /\ Unwrap(a.end_date) >= query_date}

-----------------------------------------------------------------------------
(* Repository writes: the new table after the closure ran *)

UpsertRow_insert(allocs, a) == allocs \cup {a}

UpsertRow(allocs, a) ==
    IF HasRow(allocs, a.id)
    THEN (allocs \ {RowById(allocs, a.id)}) \cup {AllocationChangeset(RowById(allocs, a.id), a)}
    ELSE allocs \cup {a}

RECURSIVE UpsertRows(_, _)
UpsertRows(allocs, batch) ==
    IF batch = <<>> THEN allocs
    ELSE UpsertRows(UpsertRow(allocs, Head(batch)), Tail(batch))

Backfill_overwrite(gs, a) ==
    IF HasRow(gs, a.goal_id)
    THEN [a EXCEPT !.start_date = RowById(gs, a.goal_id).start_date,
                   !.end_date = RowById(gs, a.goal_id).due_date]
    ELSE a

(* GoalService::upsert_goal_allocations: backfill of one allocation *)
Backfill(gs, a) ==
    IF HasRow(gs, a.goal_id)
    THEN [a EXCEPT
            !.start_date = IF a.start_date = None
                           THEN RowById(gs, a.goal_id).start_date ELSE @,
            !.end_date = IF a.end_date = None
                         THEN RowById(gs, a.goal_id).due_date ELSE @]
    ELSE a

BackfillAll(gs, batch) == [i \in 1..Len(batch) |-> Backfill(gs, batch[i])]

-----------------------------------------------------------------------------
(* Validators *)

RECURSIVE SumPercentage(_, _)
SumPercentage(allocs, exclude_allocation_id) ==
    IF allocs = {} THEN 0
    ELSE LET allocation == CHOOSE a \in allocs : TRUE
             rest == SumPercentage(allocs \ {allocation}, exclude_allocation_id)
         IN IF IsSome(exclude_allocation_id) /\ allocation.id = Unwrap(exclude_allocation_id)
            THEN rest
            ELSE rest + allocation.allocation_percentage

validate_allocation_percentages_ge(allocs, account_id, new_percentage, exclude_allocation_id) ==
    LET total_percent == new_percentage +
            SumPercentage(get_allocations_for_account(allocs, account_id),
                          exclude_allocation_id)
    IN IF total_percent >= 100 THEN ValidationErr(total_percent) ELSE Ok(Unit)

validate_allocation_percentages(allocs, account_id, new_percentage, exclude_allocation_id) ==
    LET total_percent == new_percentage +
            SumPercentage(get_allocations_for_account(allocs, account_id),
                          exclude_allocation_id)
    IN IF total_percent > 100 THEN ValidationErr(total_percent) ELSE Ok(Unit)

RECURSIVE SumAllocationAmount(_)
SumAllocationAmount(allocs) ==
    IF allocs = {} THEN 0
    ELSE LET allocation == CHOOSE a \in allocs : TRUE
         IN allocation.allocation_amount + SumAllocationAmount(allocs \ {allocation})

(* f64::max *)
Max(x, y) == IF x >= y THEN x ELSE y

get_unallocated_balance_nomax(allocs, account_id, current_account_value) ==
    current_account_value
        - SumAllocationAmount(get_allocations_for_account(allocs, account_id))

get_unallocated_balance(allocs, account_id, current_account_value) ==
    LET total_allocated ==
            SumAllocationAmount(get_allocations_for_account(allocs, account_id))
    IN Max(current_account_value - total_allocated, 0)

validate_unallocated_balance(allocs, account_id, allocation_amount, current_account_value) ==
    LET unallocated == get_unallocated_balance(allocs, account_id, current_account_value)
    IN IF allocation_amount > unallocated
       THEN ValidationErr(unallocated) ELSE Ok(Unit)

RECURSIVE SumConflicting(_, _, _, _)
SumConflicting(allocs, new_start_date, new_end_date, exclude_allocation_id) ==
    IF allocs = {} THEN 0
    ELSE LET allocation == CHOOSE a \in allocs : TRUE
             rest == SumConflicting(allocs \ {allocation}, new_start_date,
                                    new_end_date, exclude_allocation_id)
         IN IF /\ IsSome(allocation.start_date) /\ IsSome(allocation.end_date)
               /\ Unwrap(allocation.start_date) <= new_end_date
               /\ Unwrap(allocation.end_date) >= new_start_date
               /\ ~(IsSome(exclude_allocation_id)
                     /\ allocation.id = Unwrap(exclude_allocation_id))
            THEN rest + allocation.allocation_percentage
            ELSE rest

validate_allocation_conflicts(gs, allocs, account_id, new_start_date, new_end_date, new_percent_allocation, exclude_allocation_id) ==
    LET allocations == {a \in load_allocations_for_non_achieved_goals(gs, allocs) :
                            a.account_id = account_id}
        conflicting_percent == new_percent_allocation +
            SumConflicting(allocations, new_start_date, new_end_date,
                           exclude_allocation_id)
    IN IF conflicting_percent > 100
       THEN ValidationErr(conflicting_percent) ELSE Ok(Unit)

RECURSIVE SumInitAmountAtDate(_, _)
SumInitAmountAtDate(allocs, allocation_date) ==
    IF allocs = {} THEN 0
    ELSE LET alloc == CHOOSE a \in allocs : TRUE
             rest == SumInitAmountAtDate(allocs \ {alloc}, allocation_date)
         IN IF IsSome(alloc.allocation_date)
               /\ Unwrap(alloc.allocation_date) <= allocation_date
            THEN rest + alloc.init_amount
            ELSE rest

validate_historical_allocation(allocs, account_id, allocation_amount, allocation_date, account_value_at_allocation_date) ==
    LET total_allocated_at_date ==
            SumInitAmountAtDate(get_allocations_for_account(allocs, account_id),
                                allocation_date) + allocation_amount
    IN IF total_allocated_at_date > account_value_at_allocation_date
       THEN ValidationErr(total_allocated_at_date) ELSE Ok(Unit)

-----------------------------------------------------------------------------
(* Goal progress *)

(* HashMap::get(..).copied().unwrap_or(0.0) *)
GetOrZero(map, key) == IF key \in DOMAIN map THEN map[key] ELSE 0

(* the orders in which a query without ORDER BY may return a set of rows *)
Orderings(rows) ==
    {seq \in [1..Cardinality(rows) -> rows] :
        \A i, j \in 1..Cardinality(rows) : i # j => seq[i] # seq[j]}

(* The products account_growth * percent_allocation of the inputs are      *)
(* multiples of 100, so the division is exact as it is in f64.             *)
AllocationDetail(allocation, account_values_at_goal_start, current_account_values) ==
    LET account_value_at_start ==
            GetOrZero(account_values_at_goal_start, allocation.account_id)
        current_account_value == GetOrZero(current_account_values, allocation.account_id)
        account_growth == current_account_value - account_value_at_start
    IN [account_id |-> allocation.account_id,
        percent_allocation |-> allocation.percent_allocation,
        account_value_at_goal_start |-> account_value_at_start,
        account_current_value |-> current_account_value,
        account_growth |-> account_growth,
        allocated_growth |-> (account_growth * allocation.percent_allocation) \div 100]

RECURSIVE SumAllocatedGrowth(_)
SumAllocatedGrowth(details) ==
    IF details = <<>> THEN 0
    ELSE Head(details).allocated_growth + SumAllocatedGrowth(Tail(details))

GoalProgressSnapshot_init(goal, active_allocations, account_values_at_goal_start, current_account_values, query_date) ==
    LET goal_allocations == SelectSeq(active_allocations, LAMBDA a : a.goal_id = goal.id)
        allocation_details ==
            [i \in 1..Len(goal_allocations) |->
                AllocationDetail(goal_allocations[i], account_values_at_goal_start,
                                 current_account_values)]
        total_growth == SumAllocatedGrowth(allocation_details)
        RECURSIVE SumInitValue(_)
        SumInitValue(details) ==
            IF details = <<>> THEN 0
            ELSE (Head(details).account_value_at_goal_start
                    * Head(details).percent_allocation) \div 100
                 + SumInitValue(Tail(details))
    IN [goal_id |-> goal.id, query_date |-> query_date,
        init_value |-> SumInitValue(allocation_details),
        current_value |-> SumInitValue(allocation_details) + total_growth,
        growth |-> total_growth,
        allocation_details |-> allocation_details]

(* active_allocations is the result of the query in the order it came back *)
GoalProgressSnapshot(goal, active_allocations, account_values_at_goal_start, current_account_values, query_date) ==
    LET goal_allocations == SelectSeq(active_allocations, LAMBDA a : a.goal_id = goal.id)
        allocation_details ==
            [i \in 1..Len(goal_allocations) |->
                AllocationDetail(goal_allocations[i], account_values_at_goal_start,
                                 current_account_values)]
        total_growth == SumAllocatedGrowth(allocation_details)
    IN [goal_id |-> goal.id, query_date |-> query_date, init_value |-> 0,
        current_value |-> total_growth, growth |-> total_growth,
        allocation_details |-> allocation_details]

(* the account the progress calculation passes to the on-date query *)
ProgressQueryAccount == ""

calculate_goal_progress_on_date_default(allocs, goal, account_values_at_goal_start, current_account_values, query_date) ==
    {Ok(GoalProgressSnapshot(goal, active_allocations,
                             account_values_at_goal_start,
                             current_account_values, query_date)) :
        active_allocations \in
            Orderings(get_allocations_for_account_on_date(allocs,
                          ProgressQueryAccount, query_date))}

calculate_goal_progress_on_date(allocs, goal, account_values_at_goal_start, current_account_values, query_date) ==
    IF goal.start_date = None
    THEN {ValidationErr("Goal must have a start_date")}
    ELSE {Ok(GoalProgressSnapshot(goal, active_allocations,
                                  account_values_at_goal_start,
                                  current_account_values, query_date)) :
            active_allocations \in
                Orderings(get_allocations_for_account_on_date(allocs,
                              ProgressQueryAccount, query_date))}

(* the store queries the calculation issues, in order: the start_date check *)
(* returns before the only query                                            *)
ProgressStoreQueries(goal) ==
    IF goal.start_date = None THEN <<>>
    ELSE <<"get_allocations_for_account_on_date">>

get_goal_allocations_on_date(gs, allocs, goal_id, query_date) ==
    {a \in load_allocations_for_non_achieved_goals(gs, allocs) :
        /\ a.goal_id = goal_id
        /\ IsSome(a.start_date) /\ IsSome(a.end_date)
        /\ Unwrap(a.start_date) <= query_date /\ query_date <= Unwrap(a.end_date)}

-----------------------------------------------------------------------------
(* Inputs *)

(* Allocations of the percentage scheme, of one goal; the third has a date *)
(* window of one day                                                       *)
PctAllocation(aid, acc, dates, init, amount, pct) ==
    GoalsAllocation(aid, 0, "g1", acc, dates, dates, init, amount, pct, None)

AllocInputs ==
    { PctAllocation("A1", "acc1", None, 100, 300, 60),
      PctAllocation("A1", "acc1", None, 200, 700, 50),
      PctAllocation("A2", "acc1", Some(1), 100, 400, 50),
      PctAllocation("A2", "acc2", None, 100, 700, 60) }

GoalInputs == {Goal(gid, FALSE, None, None) : gid \in GoalIds}

NewPercentages == {40, 50}

AccountValues == {500, 1000}

ProposedAmounts == {300, 400}

OptAllocIds == {None} \cup {Some(aid) : aid \in AllocIds}

Batches(inputs) == UNION {[1..n -> inputs] : n \in 1..MaxBatch}

-----------------------------------------------------------------------------
(* Operations *)

Init ==
    /\ goals = {}
    /\ goals_allocation = {}
    /\ allocation_versions = {}
    /\ lastOp = [op |-> "init", args |-> <<>>, result |-> Ok(0)]
    /\ callers = [p \in {1, 2} |-> [pc |-> "idle", allocation |-> None]]

(* insert_new_goal: the id is a fresh Uuid *)
CreateGoal(g) ==
    /\ ~HasRow(goals, g.id)
    /\ goals' = goals \cup {g}
    /\ lastOp' = [op |-> "create_goal", args |-> <<g>>, result |-> Ok(g)]
    /\ UNCHANGED <<goals_allocation, allocation_versions, callers>>

UpdateGoal(g) ==
    /\ IF HasRow(goals, g.id)
       THEN LET updated == GoalChangeset(RowById(goals, g.id), g)
            IN /\ goals' = (goals \ {RowById(goals, g.id)}) \cup {updated}
               /\ lastOp' = [op |-> "update_goal", args |-> <<g>>, result |-> Ok(updated)]
       ELSE /\ goals' = goals
            /\ lastOp' = [op |-> "update_goal", args |-> <<g>>, result |-> StoreErr]
    /\ UNCHANGED <<goals_allocation, allocation_versions, callers>>

DeleteGoal_all(goal_id) ==
    /\ goals' = {}
    /\ lastOp' = [op |-> "delete_goal", args |-> <<goal_id>>,
                  result |-> Ok(Cardinality(goals))]
    /\ UNCHANGED <<goals_allocation, allocation_versions, callers>>

DeleteGoal(goal_id) ==
    /\ goals' = {g \in goals : g.id # goal_id}
    /\ lastOp' = [op |-> "delete_goal", args |-> <<goal_id>>,
                  result |-> Ok(Cardinality({g \in goals : g.id = goal_id}))]
    /\ UNCHANGED <<goals_allocation, allocation_versions, callers>>

(* repeat: the call directly follows a call of the same operation with the *)
(* same arguments                                                          *)
Repeats(op, args) == lastOp.op = op /\ lastOp.args = args

UpsertGoalAllocations(batch) ==
    /\ goals_allocation' = UpsertRows(goals_allocation, BackfillAll(load_goals(goals), batch))
    /\ lastOp' = [op |-> "upsert_goal_allocations", args |-> <<batch>>,
                  result |-> Ok(Len(batch)),
                  repeat |-> Repeats("upsert_goal_allocations", <<batch>>)]
    /\ UNCHANGED <<goals, allocation_versions, callers>>

UpdateAllocation(a) ==
    /\ IF HasRow(goals_allocation, a.id)
       THEN LET updated == AllocationChangeset(RowById(goals_allocation, a.id), a)
            IN /\ goals_allocation' =
                     (goals_allocation \ {RowById(goals_allocation, a.id)}) \cup {updated}
               /\ lastOp' = [op |-> "update_allocation", args |-> <<a>>,
                             result |-> Ok(updated)]
       ELSE /\ goals_allocation' = goals_allocation
            /\ lastOp' = [op |-> "update_allocation", args |-> <<a>>, result |-> StoreErr]
    /\ UNCHANGED <<goals, allocation_versions, callers>>

DeleteAllocation(allocation_id) ==
    /\ goals_allocation' = {a \in goals_allocation : a.id # allocation_id}
    /\ lastOp' = [op |-> "delete_allocation", args |-> <<allocation_id>>,
                  result |-> Ok(Cardinality({a \in goals_allocation : a.id = allocation_id}))]
    /\ UNCHANGED <<goals, allocation_versions, callers>>

ValidateAllocationPercentages(account_id, new_percentage, exclude_allocation_id) ==
    /\ lastOp' = [op |-> "validate_allocation_percentages",
                  args |-> <<account_id, new_percentage, exclude_allocation_id>>,
                  result |-> validate_allocation_percentages(goals_allocation,
                                account_id, new_percentage, exclude_allocation_id)]
    /\ UNCHANGED <<goals, goals_allocation, allocation_versions, callers>>

GetUnallocatedBalance(account_id, current_account_value) ==
    /\ lastOp' = [op |-> "get_unallocated_balance",
                  args |-> <<account_id, current_account_value>>,
                  result |-> Ok(get_unallocated_balance(goals_allocation,
                                account_id, current_account_value))]
    /\ UNCHANGED <<goals, goals_allocation, allocation_versions, callers>>

ValidateUnallocatedBalance(account_id, allocation_amount, current_account_value) ==
    /\ lastOp' = [op |-> "validate_unallocated_balance",
                  args |-> <<account_id, allocation_amount, current_account_value>>,
                  result |-> validate_unallocated_balance(goals_allocation,
                                account_id, allocation_amount, current_account_value)]
    /\ UNCHANGED <<goals, goals_allocation, allocation_versions, callers>>

Next ==
    \/ \E g \in GoalInputs : CreateGoal(g)
    \/ \E g \in GoalInputs : UpdateGoal(g)
    \/ \E gid \in GoalIds : DeleteGoal(gid)
    \/ \E batch \in Batches(AllocInputs) : UpsertGoalAllocations(batch)
    \/ \E a \in AllocInputs : UpdateAllocation(a)
    \/ \E aid \in AllocIds : DeleteAllocation(aid)
    \/ \E acc \in AccountIds, p \in NewPercentages,
          ex \in OptAllocIds :
            ValidateAllocationPercentages(acc, p, ex)
    \/ \E acc \in AccountIds, v \in AccountValues : GetUnallocatedBalance(acc, v)
    \/ \E acc \in AccountIds, amt \in ProposedAmounts, v \in AccountValues :
            ValidateUnallocatedBalance(acc, amt, v)

Spec == Init /\ [][Next]_vars

-----------------------------------------------------------------------------
(* Concurrent callers of the command layer.  A caller first asks the       *)
(* command validate_allocation_percentages about its allocation and, on a  *)
(* valid answer, calls update_goal_allocations with it.  The validation    *)
(* reads through the connection pool; only the closure of the upsert runs  *)
(* on the serialized writer, so the two commands are two steps.            *)

Callers == DOMAIN callers

CallerValidate(p, a) ==
    /\ callers[p].pc \in {"idle", "written"}
    /\ LET result == validate_allocation_percentages(goals_allocation,
                        a.account_id, a.allocation_percentage, Some(a.id))
       IN /\ lastOp' = [op |-> "validate_allocation_percentages",
                        args |-> <<a.account_id, a.allocation_percentage, Some(a.id)>>,
                        result |-> result]
          /\ callers' = [callers EXCEPT ![p] =
                            IF result.kind = "Ok"
                            THEN [pc |-> "validated", allocation |-> Some(a)]
                            ELSE [pc |-> "idle", allocation |-> None]]
    /\ UNCHANGED <<goals, goals_allocation, allocation_versions>>

CallerUpsert(p) ==
    /\ callers[p].pc = "validated"
    /\ LET batch == <<Unwrap(callers[p].allocation)>>
       IN /\ goals_allocation' =
                UpsertRows(goals_allocation, BackfillAll(load_goals(goals), batch))
          /\ lastOp' = [op |-> "upsert_goal_allocations", args |-> <<batch>>,
                        result |-> Ok(Len(batch)),
                        repeat |-> Repeats("upsert_goal_allocations", <<batch>>)]
    /\ callers' = [callers EXCEPT ![p].pc = "written"]
    /\ UNCHANGED <<goals, allocation_versions>>

NextConc ==
    \/ \E p \in Callers, a \in AllocInputs : CallerValidate(p, a)
    \/ \E p \in Callers : CallerUpsert(p)

SpecConc == Init /\ [][NextConc]_vars

-----------------------------------------------------------------------------
(* The date-range scheme: allocations with legacy percent and dates, goals *)
(* with and without dates, the legacy validator, the historical validator  *)
(* and the progress calculation.                                           *)

LegacyAccountIds == {"acc1", ""}

LegacyAllocInputs ==
    { GoalsAllocation("A1", 60, "g1", "acc1", Some(1), Some(2), 700, 700, 40, None),
      GoalsAllocation("A1", 50, "g1", "", None, None, 100, 100, 50, Some(1)),
      GoalsAllocation("A2", 50, "g2", "acc1", Some(2), Some(MaxDate), 300, 300, 50, Some(2)),
      GoalsAllocation("A2", 50, "g1", "acc1", Some(1), Some(MaxDate), 100, 100, 50, Some(MaxDate)) }

LegacyGoalInputs ==
    { Goal("g1", FALSE, Some(1), Some(MaxDate)),
      Goal("g1", FALSE, None, None),
      Goal("g2", TRUE, Some(1), Some(MaxDate)) }

LegacyPercents == {50, 60}

DateRanges == {r \in Dates \X Dates : r[1] <= r[2]}

ValuesAtGoalStart == { [acc \in LegacyAccountIds |-> 1000] }

(* the second map has no entry for the account "" *)
CurrentValues == { [acc \in LegacyAccountIds |-> 1400], [acc \in {"acc1"} |-> 1200] }

HistoricalAmounts == {400}

HistoricalValues == {1000}

ValidateAllocationConflicts(account_id, new_start_date, new_end_date, new_percent_allocation, exclude_allocation_id) ==
    /\ lastOp' = [op |-> "validate_allocation_conflicts",
                  args |-> <<account_id, new_start_date, new_end_date,
                             new_percent_allocation, exclude_allocation_id>>,
                  result |-> validate_allocation_conflicts(goals, goals_allocation,
                                account_id, new_start_date, new_end_date,
                                new_percent_allocation, exclude_allocation_id)]
    /\ UNCHANGED <<goals, goals_allocation, allocation_versions, callers>>

ValidateHistoricalAllocation(account_id, allocation_amount, allocation_date, account_value_at_allocation_date) ==
    /\ lastOp' = [op |-> "validate_historical_allocation",
                  args |-> <<account_id, allocation_amount, allocation_date,
                             account_value_at_allocation_date>>,
                  result |-> validate_historical_allocation(goals_allocation,
                                account_id, allocation_amount, allocation_date,
                                account_value_at_allocation_date)]
    /\ UNCHANGED <<goals, goals_allocation, allocation_versions, callers>>

CalculateGoalProgressOnDate_write(goal, account_values_at_goal_start, current_account_values, query_date) ==
    /\ \E result \in calculate_goal_progress_on_date(goals_allocation, goal,
                        account_values_at_goal_start, current_account_values,
                        query_date) :
            lastOp' = [op |-> "calculate_goal_progress_on_date",
                       args |-> <<goal, account_values_at_goal_start,
                                  current_account_values, query_date>>,
                       result |-> result,
                       queries |-> ProgressStoreQueries(goal)]
    /\ goals' = {IF g.id = goal.id THEN goal ELSE g : g \in goals}
    /\ UNCHANGED <<goals_allocation, allocation_versions, callers>>

CalculateGoalProgressOnDate(goal, account_values_at_goal_start, current_account_values, query_date) ==
    /\ \E result \in calculate_goal_progress_on_date(goals_allocation, goal,
                        account_values_at_goal_start, current_account_values,
                        query_date) :
            lastOp' = [op |-> "calculate_goal_progress_on_date",
                       args |-> <<goal, account_values_at_goal_start,
                                  current_account_values, query_date>>,
                       result |-> result,
                       queries |-> ProgressStoreQueries(goal)]
    /\ UNCHANGED <<goals, goals_allocation, allocation_versions, callers>>

GetGoalAllocationsOnDate(goal_id, query_date) ==
    /\ lastOp' = [op |-> "get_goal_allocations_on_date",
                  args |-> <<goal_id, query_date>>,
                  result |-> Ok(get_goal_allocations_on_date(goals, goals_allocation,
                                    goal_id, query_date))]
    /\ UNCHANGED <<goals, goals_allocation, allocation_versions, callers>>

NextLegacy ==
    \/ \E g \in LegacyGoalInputs : CreateGoal(g)
    \/ \E g \in LegacyGoalInputs : UpdateGoal(g)
    \/ \E gid \in GoalIds : DeleteGoal(gid)
    \/ \E batch \in Batches(LegacyAllocInputs) : UpsertGoalAllocations(batch)
    \/ \E aid \in AllocIds : DeleteAllocation(aid)
    \/ \E acc \in LegacyAccountIds, r \in DateRanges, p \in LegacyPercents,
          ex \in OptAllocIds : ValidateAllocationConflicts(acc, r[1], r[2], p, ex)
    \/ \E acc \in LegacyAccountIds, amt \in HistoricalAmounts, d \in Dates,
          v \in HistoricalValues : ValidateHistoricalAllocation(acc, amt, d, v)
    \/ \E g \in LegacyGoalInputs, vs \in ValuesAtGoalStart, vc \in CurrentValues,
          d \in Dates :
            CalculateGoalProgressOnDate(g, vs, vc, d)
    \/ \E gid \in GoalIds, d \in Dates : GetGoalAllocationsOnDate(gid, d)
    \/ \E acc \in LegacyAccountIds, p \in NewPercentages :
            ValidateAllocationPercentages(acc, p, None)
    \/ \E acc \in LegacyAccountIds : GetUnallocatedBalance(acc, 1000)
    \/ \E acc \in LegacyAccountIds, amt \in ProposedAmounts :
            ValidateUnallocatedBalance(acc, amt, 1000)

(* the store once the goal g1 has been created with its dates *)
InitLegacy ==
    /\ goals = {Goal("g1", FALSE, Some(1), Some(MaxDate))}
    /\ goals_allocation = {}
    /\ allocation_versions = {}
    /\ lastOp = [op |-> "create_goal",
                 args |-> <<Goal("g1", FALSE, Some(1), Some(MaxDate))>>,
                 result |-> Ok(Goal("g1", FALSE, Some(1), Some(MaxDate)))]
    /\ callers = [p \in {1, 2} |-> [pc |-> "idle", allocation |-> None]]

SpecLegacy == InitLegacy /\ [][NextLegacy]_vars

-----------------------------------------------------------------------------
(* Backfill of allocation dates: allocations with unset, partly set and    *)
(* explicit dates, for goals that are stored or not, with or without dates *)

BackfillAllocInputs ==
    { GoalsAllocation("A1", 50, "g1", "acc1", None, None, 100, 100, 50, None),
      GoalsAllocation("A1", 50, "g1", "acc1", Some(2), None, 100, 100, 50, None),
      GoalsAllocation("A2", 50, "g2", "acc1", None, Some(2), 100, 100, 50, None),
      GoalsAllocation("A2", 50, "g1", "acc1", Some(2), Some(2), 100, 100, 50, None) }

NextBackfill ==
    \/ \E g \in LegacyGoalInputs : CreateGoal(g)
    \/ \E g \in LegacyGoalInputs : UpdateGoal(g)
    \/ \E gid \in GoalIds : DeleteGoal(gid)
    \/ \E batch \in Batches(BackfillAllocInputs) : UpsertGoalAllocations(batch)
    \/ \E a \in BackfillAllocInputs : UpdateAllocation(a)
    \/ \E aid \in AllocIds : DeleteAllocation(aid)

SpecBackfill == Init /\ [][NextBackfill]_vars

(* ---- store failure during a batch upsert -------------------------------- *)

StoreFailure == [kind |-> "Store", value |-> "DatabaseError"]

(* The closure handed to the writer: the loop over the batch on the        *)
(* connection conn.  The statement of row fail_at fails (fail_at = 0: no   *)
(* statement fails); the ? operator then leaves the loop with the error,   *)
(* the connection holding the rows written so far.                         *)
RECURSIVE UpsertClosure_continue(_, _, _, _)
UpsertClosure_continue(conn, allocations, i, fail_at) ==
    IF i > Len(allocations) THEN [result |-> Ok(Len(allocations)), conn |-> conn]
    ELSE IF i = fail_at
         THEN UpsertClosure_continue(conn, allocations, i + 1, fail_at)
         ELSE UpsertClosure_continue(UpsertRow(conn, allocations[i]), allocations,
                                     i + 1, fail_at)

RECURSIVE UpsertClosure(_, _, _, _)
UpsertClosure(conn, allocations, i, fail_at) ==
    IF i > Len(allocations) THEN [result |-> Ok(Len(allocations)), conn |-> conn]
    ELSE IF i = fail_at
         THEN [result |-> StoreFailure, conn |-> conn]
         ELSE UpsertClosure(UpsertRow(conn, allocations[i]), allocations,
                            i + 1, fail_at)

(* The writer runs a closure as one transaction: the closure's writes are  *)
(* committed when it returns Ok and rolled back when it returns an error.  *)
WriterExec(table, outcome) ==
    IF outcome.result.kind = "Ok" THEN outcome.conn ELSE table

UpsertGoalAllocationsStoreFailure(batch, fail_at) ==
    LET outcome == UpsertClosure(goals_allocation,
                                 BackfillAll(load_goals(goals), batch), 1, fail_at)
    IN /\ goals_allocation' = WriterExec(goals_allocation, outcome)
       /\ lastOp' = [op |-> "upsert_goal_allocations", args |-> <<batch>>,
                     result |-> outcome.result,
                     repeat |-> Repeats("upsert_goal_allocations", <<batch>>),
                     fail_at |-> fail_at]
       /\ UNCHANGED <<goals, allocation_versions, callers>>

TxnAllocInputs ==
    { GoalsAllocation("A1", 50, "g1", "acc1", None, None, 100, 100, 50, None),
      GoalsAllocation("A1", 60, "g1", "acc1", Some(2), Some(2), 200, 200, 60, None),
      GoalsAllocation("A2", 50, "g1", "acc1", Some(1), Some(2), 100, 100, 50, None) }

NextTxn ==
    \/ CreateGoal(Goal("g1", FALSE, Some(1), Some(MaxDate)))
    \/ \E batch \in Batches(TxnAllocInputs) : UpsertGoalAllocations(batch)
    \/ \E batch \in Batches(TxnAllocInputs) :
          \E fail_at \in 1..Len(batch) :
            UpsertGoalAllocationsStoreFailure(batch, fail_at)
    \/ \E aid \in AllocIds : DeleteAllocation(aid)

SpecTxn == Init /\ [][NextTxn]_vars

-----------------------------------------------------------------------------
(* Allocation versions *)

VersionIds == 1..MaxVersions

VersionInputs ==
    {AllocationVersion(v, "A1", s, e) :
        v \in VersionIds, s \in {1, 2}, e \in {None, Some(2)}}
    \cup {AllocationVersion(v, "A2", 1, Some(MaxDate)) : v \in VersionIds}

(* the rows in an order that satisfies ORDER BY version_start_date ASC *)
get_allocation_versions(versions, allocation_id) ==
    {seq \in Orderings({v \in versions : v.allocation_id = allocation_id}) :
        \A i, j \in DOMAIN seq :
            i < j => seq[i].version_start_date <= seq[j].version_start_date}

(* the primary key id is unique: a second row with the id is refused *)
InsertAllocationVersion(version) ==
    /\ IF HasRow(allocation_versions, version.id)
       THEN /\ allocation_versions' = allocation_versions
            /\ lastOp' = [op |-> "insert_allocation_version", args |-> <<version>>,
                          result |-> [kind |-> "Store", value |-> "UniqueViolation"]]
       ELSE /\ allocation_versions' = allocation_versions \cup {version}
            /\ lastOp' = [op |-> "insert_allocation_version", args |-> <<version>>,
                          result |-> Ok(version)]
    /\ UNCHANGED <<goals, goals_allocation, callers>>

GetAllocationVersions(allocation_id) ==
    /\ \E result \in get_allocation_versions(allocation_versions, allocation_id) :
            lastOp' = [op |-> "get_allocation_versions", args |-> <<allocation_id>>,
                       result |-> Ok(result)]
    /\ UNCHANGED <<goals, goals_allocation, allocation_versions, callers>>

NextVersions ==
    \/ \E version \in VersionInputs : InsertAllocationVersion(version)
    \/ \E aid \in AllocIds : GetAllocationVersions(aid)

SpecVersions == Init /\ [][NextVersions]_vars

-----------------------------------------------------------------------------
(* Quantities the properties are stated in, computed per allocation id *)

(* ---- command layer ------------------------------------------------------ *)

(* Result<T, String> of a command *)
CmdOk(v) == [kind |-> "Ok", value |-> v]

(* e.to_string(): the text of the error; the error's kind is no longer a   *)
(* variant the caller can match on                                         *)
to_string(e) == IF e.kind = "Validation" THEN "Validation error" ELSE "Database error"

CmdErr(e) == [kind |-> "Err", value |-> to_string(e)]

(* ResourceEventPayload::new(resource_type, action, {<resource>_id: id}) *)
ResourceEventPayload(resource_type, action, id) ==
    [resource_type |-> resource_type, action |-> action, id |-> id]

(* .map_err(|e| e.to_string())? followed by emit_resource_changed: the     *)
(* events the handler has emitted when it returns                          *)
EmitAfter(result, payload) == IF result.kind = "Ok" THEN <<payload>> ELSE <<>>

MapErr(result) == IF result.kind = "Ok" THEN CmdOk(result.value) ELSE CmdErr(result)

CommandCreateGoal(g) ==
    /\ ~HasRow(goals, g.id)
    /\ goals' = goals \cup {g}
    /\ lastOp' = [op |-> "command_create_goal", args |-> <<g>>, result |-> Ok(g),
                  response |-> MapErr(Ok(g)),
                  events |-> EmitAfter(Ok(g), ResourceEventPayload("goal", "created", g.id))]
    /\ UNCHANGED <<goals_allocation, allocation_versions, callers>>

CommandUpdateGoal(g) ==
    LET result == IF HasRow(goals, g.id)
                  THEN Ok(GoalChangeset(RowById(goals, g.id), g))
                  ELSE StoreErr
    IN /\ goals' = IF result.kind = "Ok"
                   THEN (goals \ {RowById(goals, g.id)}) \cup {result.value}
                   ELSE goals
       /\ lastOp' = [op |-> "command_update_goal", args |-> <<g>>, result |-> result,
                     response |-> MapErr(result),
                     events |-> EmitAfter(result,
                                    ResourceEventPayload("goal", "updated", g.id))]
       /\ UNCHANGED <<goals_allocation, allocation_versions, callers>>

CommandDeleteGoal(goal_id) ==
    LET result == Ok(Cardinality({g \in goals : g.id = goal_id}))
    IN /\ goals' = {g \in goals : g.id # goal_id}
       /\ lastOp' = [op |-> "command_delete_goal", args |-> <<goal_id>>,
                     result |-> result, response |-> MapErr(result),
                     events |-> EmitAfter(result,
                                    ResourceEventPayload("goal", "deleted", goal_id))]
       /\ UNCHANGED <<goals_allocation, allocation_versions, callers>>

(* the handler takes no AppHandle and emits nothing *)
CommandUpdateGoalAllocations(allocations) ==
    LET result == Ok(Len(allocations))
    IN /\ goals_allocation' =
            UpsertRows(goals_allocation, BackfillAll(load_goals(goals), allocations))
       /\ lastOp' = [op |-> "command_update_goal_allocations",
                     args |-> <<allocations>>,
                     result |-> result, response |-> MapErr(result),
                     events |-> <<>>]
       /\ UNCHANGED <<goals, allocation_versions, callers>>

CommandDeleteGoalAllocation(allocation_id) ==
    LET result == Ok(Cardinality({a \in goals_allocation : a.id = allocation_id}))
    IN /\ goals_allocation' = {a \in goals_allocation : a.id # allocation_id}
       /\ lastOp' = [op |-> "command_delete_goal_allocation",
                     args |-> <<allocation_id>>,
                     result |-> result, response |-> MapErr(result),
                     events |-> EmitAfter(result,
                                    ResourceEventPayload("allocation", "deleted",
                                                         allocation_id))]
       /\ UNCHANGED <<goals, allocation_versions, callers>>

(* A validator's load of the allocations goes through get_connection(..)?: *)
(* when no connection can be had the validator returns the store failure.  *)
WithConnection(connected, result) == IF connected THEN result ELSE StoreFailure

(* match result { Ok(()) => valid: true, Err(e) => valid: false } *)
ValidationResponse(result) ==
    IF result.kind = "Ok"
    THEN CmdOk([valid |-> TRUE, message |-> ""])
    ELSE CmdOk([valid |-> FALSE, message |-> to_string(result)])

CommandValidateAllocationConflict(account_id, start_date, end_date, percent_allocation, exclude_allocation_id, connected) ==
    LET result == WithConnection(connected,
                    validate_allocation_conflicts(goals, goals_allocation, account_id,
                        start_date, end_date, percent_allocation,
                        exclude_allocation_id))
    IN /\ lastOp' = [op |-> "command_validate_allocation_conflict",
                     args |-> <<account_id, start_date, end_date, percent_allocation,
                                exclude_allocation_id>>,
                     result |-> result, response |-> ValidationResponse(result)]
       /\ UNCHANGED <<goals, goals_allocation, allocation_versions, callers>>

CommandValidateUnallocatedBalance(account_id, allocation_amount, current_account_value, connected) ==
    LET result == WithConnection(connected,
                    validate_unallocated_balance(goals_allocation, account_id,
                        allocation_amount, current_account_value))
    IN /\ lastOp' = [op |-> "command_validate_unallocated_balance",
                     args |-> <<account_id, allocation_amount, current_account_value>>,
                     result |-> result, response |-> ValidationResponse(result)]
       /\ UNCHANGED <<goals, goals_allocation, allocation_versions, callers>>

CommandValidateAllocationPercentages(account_id, new_percentage, exclude_allocation_id, connected) ==
    LET result == WithConnection(connected,
                    validate_allocation_percentages(goals_allocation, account_id,
                        new_percentage, exclude_allocation_id))
    IN /\ lastOp' = [op |-> "command_validate_allocation_percentages",
                     args |-> <<account_id, new_percentage, exclude_allocation_id>>,
                     result |-> result, response |-> ValidationResponse(result)]
       /\ UNCHANGED <<goals, goals_allocation, allocation_versions, callers>>

CommandAllocInputs ==
    { GoalsAllocation("A1", 60, "g1", "acc1", Some(1), Some(2), 300, 300, 60, None),
      GoalsAllocation("A2", 50, "g1", "acc1", Some(2), Some(MaxDate), 400, 400, 50, None),
      GoalsAllocation("A2", 50, "g2", "acc2", None, None, 100, 100, 50, None) }

NextCommands ==
    \/ \E g \in GoalInputs : CommandCreateGoal(g)
    \/ \E g \in GoalInputs : CommandUpdateGoal(g)
    \/ \E gid \in GoalIds : CommandDeleteGoal(gid)
    \/ \E allocations \in Batches(CommandAllocInputs) :
            CommandUpdateGoalAllocations(allocations)
    \/ \E aid \in AllocIds : CommandDeleteGoalAllocation(aid)
    \/ \E acc \in AccountIds, r \in DateRanges, p \in LegacyPercents,
          ex \in OptAllocIds, connected \in BOOLEAN :
            CommandValidateAllocationConflict(acc, r[1], r[2], p, ex, connected)
    \/ \E acc \in AccountIds, amt \in ProposedAmounts, v \in AccountValues,
          connected \in BOOLEAN :
            CommandValidateUnallocatedBalance(acc, amt, v, connected)
    \/ \E acc \in AccountIds, p \in NewPercentages, ex \in OptAllocIds,
          connected \in BOOLEAN :
            CommandValidateAllocationPercentages(acc, p, ex, connected)

SpecCommands == Init /\ [][NextCommands]_vars

(* ---- growth arithmetic ------------------------------------------------ *)

MaxSegments == 3

(* The differences value_end - value_start of the inputs are multiples of  *)
(* 100, so growth * (percentage / 100) is the exact quotient below.        *)
calculate_allocation_growth(allocation_percentage, account_value_start, account_value_end) ==
    LET account_growth == account_value_end - account_value_start
    IN (account_growth * allocation_percentage) \div 100

calculate_segmented_growth_first(allocation_values) ==
    IF allocation_values = <<>> THEN 0
    ELSE calculate_allocation_growth(allocation_values[1][1],
                                     allocation_values[1][2],
                                     allocation_values[Len(allocation_values)][3])

RECURSIVE calculate_segmented_growth(_)
calculate_segmented_growth(allocation_values) ==
    IF allocation_values = <<>> THEN 0
    ELSE calculate_allocation_growth(Head(allocation_values)[1],
                                     Head(allocation_values)[2],
                                     Head(allocation_values)[3])
            + calculate_segmented_growth(Tail(allocation_values))

(* (allocation_percentage, value_start, value_end) *)
SegmentInputs ==
    { <<50, 1000, 1400>>, <<100, 1000, 900>>, <<30, 500, 500>>,
      <<60, 0, 1000>>, <<50, 1400, 1000>> }

SegmentLists == UNION {[1..n -> SegmentInputs] : n \in 0..MaxSegments}

CalculateSegmentedGrowth(allocation_values) ==
    /\ lastOp' = [op |-> "calculate_segmented_growth",
                  args |-> <<allocation_values>>,
                  result |-> Ok(calculate_segmented_growth(allocation_values))]
    /\ UNCHANGED <<goals, goals_allocation, allocation_versions, callers>>

NextGrowth == \E allocation_values \in SegmentLists :
                CalculateSegmentedGrowth(allocation_values)

SpecGrowth == Init /\ [][NextGrowth]_vars

RECURSIVE SumOver(_, _)
SumOver(f, S) ==
    IF S = {} THEN 0
    ELSE LET x == CHOOSE y \in S : TRUE IN f[x] + SumOver(f, S \ {x})

StoredIds == {a.id : a \in goals_allocation}

(* the stored percentage of account acc, leaving out the allocation ex *)
AccountPercentage(acc, ex) ==
    SumOver([aid \in StoredIds |->
                LET row == RowById(goals_allocation, aid)
                IN IF row.account_id = acc /\ Some(aid) # ex
                   THEN row.allocation_percentage ELSE 0],
            StoredIds)

(* the stored allocation_amount of account acc *)
AccountAmount(acc) ==
    SumOver([aid \in StoredIds |->
                LET row == RowById(goals_allocation, aid)
                IN IF row.account_id = acc THEN row.allocation_amount ELSE 0],
            StoredIds)

-----------------------------------------------------------------------------
(* C1: in every reachable state, for every account the sum of              *)
(* allocation_percentage over the account's stored allocations is at most  *)
(* 100 (an upsert that would exceed it is rejected and changes nothing).   *)
C1_PercentageSumAtMost100 ==
    \A acc \in AccountIds : AccountPercentage(acc, None) <= 100

(* C2: with concurrent callers that each validate and then upsert, no     *)
(* interleaving lets the account of a caller whose validated write has     *)
(* completed hold more than 100 percent.                                   *)
C2_ValidatedWritesKeepCap ==
    \A p \in Callers :
        callers[p].pc = "written" =>
            AccountPercentage(Unwrap(callers[p].allocation).account_id, None) <= 100

(* C3: validate_allocation_percentages fails exactly when new_percentage   *)
(* plus the stored percentages of the account, other than exclude_id, is   *)
(* strictly greater than 100, and the failure reports that sum.            *)
C3_ValidatePercentagesExact ==
    lastOp.op = "validate_allocation_percentages" =>
        LET total == lastOp.args[2] + AccountPercentage(lastOp.args[1], lastOp.args[3])
        IN /\ lastOp.result.kind = (IF total > 100 THEN "Validation" ELSE "Ok")
           /\ lastOp.result.kind = "Validation" => lastOp.result.value = total

(* one stored 60% allocation on the account, 50% proposed: failure, 110 *)
C3_Witness ==
    /\ lastOp.op = "validate_allocation_percentages"
    /\ lastOp.args[2] = 50 /\ lastOp.args[3] = None
    /\ \E a \in goals_allocation :
            /\ a.allocation_percentage = 60
            /\ get_allocations_for_account(goals_allocation, lastOp.args[1]) = {a}
    /\ lastOp.result = ValidationErr(110)

(* C4: validate_allocation_conflicts fails exactly when new_percent plus   *)
(* the legacy percent_allocation of every other allocation of the account  *)
(* whose date range overlaps [new_start, new_end] exceeds 100.             *)
C4_ConflictsSumLegacyPercent ==
    lastOp.op = "validate_allocation_conflicts" =>
        LET acc == lastOp.args[1]
            new_start == lastOp.args[2]
            new_end == lastOp.args[3]
            ex == lastOp.args[5]
            overlapping ==
                SumOver([aid \in StoredIds |->
                            LET row == RowById(goals_allocation, aid)
                            IN IF /\ row.account_id = acc /\ Some(aid) # ex
                                  /\ row.start_date # None /\ row.end_date # None
                                  /\ row.start_date[1] <= new_end
                                  /\ row.end_date[1] >= new_start
                               THEN row.percent_allocation ELSE 0],
                        StoredIds)
        IN lastOp.result.kind =
              (IF lastOp.args[4] + overlapping > 100 THEN "Validation" ELSE "Ok")

(* C5: for a goal with a start_date, the growth of the snapshot is the sum *)
(* over every stored allocation of the goal whose window contains the      *)
(* query date, whatever its account, of the account's growth times         *)
(* percent_allocation/100, with one detail per such allocation.            *)
C5_ProgressSumsActiveAllocations ==
    (lastOp.op = "calculate_goal_progress_on_date" /\ lastOp.args[1].start_date # None) =>
        LET goal == lastOp.args[1]
            query_date == lastOp.args[4]
            active == {aid \in StoredIds :
                        LET row == RowById(goals_allocation, aid)
                        IN /\ row.goal_id = goal.id
                           /\ row.start_date # None /\ row.end_date # None
                           /\ row.start_date[1] <= query_date
                           /\ query_date <= row.end_date[1]}
            expected ==
                SumOver([aid \in active |->
                            LET row == RowById(goals_allocation, aid)
                            IN ((GetOrZero(lastOp.args[3], row.account_id)
                                   - GetOrZero(lastOp.args[2], row.account_id))
                                * row.percent_allocation) \div 100],
                        active)
        IN /\ lastOp.result.kind = "Ok"
           /\ lastOp.result.value.growth = expected
           /\ Len(lastOp.result.value.allocation_details) = Cardinality(active)

(* C6: validate_unallocated_balance fails exactly when the proposed amount *)
(* exceeds max(0, value - sum of allocation_amount of the account), and    *)
(* get_unallocated_balance returns that maximum, never a negative number.  *)
C6_UnallocatedBalanceExact ==
    /\ lastOp.op = "validate_unallocated_balance" =>
            LET remainder == lastOp.args[3] - AccountAmount(lastOp.args[1])
                unallocated == IF remainder < 0 THEN 0 ELSE remainder
            IN lastOp.result.kind =
                  (IF lastOp.args[2] > unallocated THEN "Validation" ELSE "Ok")
    /\ lastOp.op = "get_unallocated_balance" =>
            LET remainder == lastOp.args[2] - AccountAmount(lastOp.args[1])
            IN /\ lastOp.result.value >= 0
               /\ lastOp.result.value = (IF remainder < 0 THEN 0 ELSE remainder)

(* value 1000, allocations totalling 700, 400 proposed: failure *)
C6_Witness ==
    /\ lastOp.op = "validate_unallocated_balance"
    /\ lastOp.args[2] = 400 /\ lastOp.args[3] = 1000
    /\ AccountAmount(lastOp.args[1]) = 700
    /\ lastOp.result = ValidationErr(300)

(* C7: the total validate_historical_allocation compares is the proposed   *)
(* amount plus the init_amount of every allocation of the account that     *)
(* started on or before as_of (none is left out), and it fails exactly     *)
(* when that total exceeds the account value.  An allocation started on    *)
(* its allocation_date or, when that is unset, on its legacy start_date.   *)
C7_HistoricalNeverUnderCounts ==
    lastOp.op = "validate_historical_allocation" =>
        LET acc == lastOp.args[1]
            as_of == lastOp.args[3]
            committed ==
                SumOver([aid \in StoredIds |->
                            LET row == RowById(goals_allocation, aid)
                                started == IF row.allocation_date # None
                                           THEN row.allocation_date
                                           ELSE row.start_date
                            IN IF /\ row.account_id = acc
                                  /\ started # None /\ started[1] <= as_of
                               THEN row.init_amount ELSE 0],
                        StoredIds)
        IN /\ lastOp.result.kind =
                 (IF lastOp.args[2] + committed > lastOp.args[4]
                  THEN "Validation" ELSE "Ok")
           /\ lastOp.result.kind = "Validation" =>
                 lastOp.result.value = lastOp.args[2] + committed

(* C8 as claimed: after a successful upsert every allocation of the batch  *)
(* whose start_date (end_date) was unset and whose goal is stored is       *)
(* persisted with the goal's start_date (due_date), and an explicit date   *)
(* is persisted unchanged.                                                 *)
C8_BackfillEveryAllocation ==
    (lastOp.op = "upsert_goal_allocations" /\ lastOp.result.kind = "Ok") =>
        \A i \in DOMAIN lastOp.args[1] :
            LET a == lastOp.args[1][i]
                row == RowById(goals_allocation, a.id)
            IN /\ HasRow(goals_allocation, a.id)
               /\ a.start_date # None => row.start_date = a.start_date
               /\ a.end_date # None => row.end_date = a.end_date
               /\ HasRow(goals, a.goal_id) =>
                    /\ a.start_date = None =>
                            row.start_date = RowById(goals, a.goal_id).start_date
                    /\ a.end_date = None =>
                            row.end_date = RowById(goals, a.goal_id).due_date

(* C8, amended: after a successful upsert the row of every allocation id   *)
(* of the batch reflects the last allocation of the batch with that id: a  *)
(* start_date (end_date) that was unset, for a stored goal that has a      *)
(* start_date (due_date), is persisted as that date, and an explicit date  *)
(* is persisted unchanged, never overwritten by the goal's dates.          *)
C8_BackfillLastOfEachId ==
    (lastOp.op = "upsert_goal_allocations" /\ lastOp.result.kind = "Ok") =>
        \A i \in DOMAIN lastOp.args[1] :
            LET batch == lastOp.args[1]
                a == batch[i]
                row == RowById(goals_allocation, a.id)
            IN (\A j \in DOMAIN batch : j > i => batch[j].id # a.id) =>
                /\ HasRow(goals_allocation, a.id)
                /\ a.start_date # None => row.start_date = a.start_date
                /\ a.end_date # None => row.end_date = a.end_date
                /\ HasRow(goals, a.goal_id) =>
                     /\ (a.start_date = None
                            /\ RowById(goals, a.goal_id).start_date # None) =>
                                row.start_date = RowById(goals, a.goal_id).start_date
                     /\ (a.end_date = None
                            /\ RowById(goals, a.goal_id).due_date # None) =>
                                row.end_date = RowById(goals, a.goal_id).due_date

(* an allocation without dates, upserted for a stored goal that has both   *)
(* dates, is stored with them; one with explicit dates other than the      *)
(* goal's is stored with its own                                           *)
C8_Witness ==
    /\ lastOp.op = "upsert_goal_allocations"
    /\ \E i \in DOMAIN lastOp.args[1] :
        LET a == lastOp.args[1][i]
        IN /\ a.start_date = None /\ a.end_date = None
           /\ HasRow(goals, a.goal_id)
           /\ RowById(goals, a.goal_id).start_date = Some(1)
           /\ RowById(goals, a.goal_id).due_date = Some(MaxDate)
           /\ RowById(goals_allocation, a.id).start_date = Some(1)
           /\ RowById(goals_allocation, a.id).end_date = Some(MaxDate)
    /\ \E i \in DOMAIN lastOp.args[1] :
        LET a == lastOp.args[1][i]
        IN /\ a.start_date = Some(2) /\ a.end_date = Some(2)
           /\ HasRow(goals, a.goal_id)
           /\ RowById(goals, a.goal_id).start_date = Some(1)
           /\ RowById(goals_allocation, a.id).start_date = Some(2)
           /\ RowById(goals_allocation, a.id).end_date = Some(2)

(* C9: once a row with an allocation id is stored, no later step changes   *)
(* the stored init_amount of that id.                                      *)
C9_InitAmountImmutable ==
    [][\A a \in goals_allocation : \A b \in goals_allocation' :
            a.id = b.id => a.init_amount = b.init_amount]_vars


(* C12: calculate_goal_progress_on_date for a goal without start_date      *)
(* returns a validation failure and no snapshot, whatever the store holds   *)
(* and whatever the other inputs are, and has issued no store query.        *)
C12_ProgressRequiresStartDate ==
    (lastOp.op = "calculate_goal_progress_on_date" /\ lastOp.args[1].start_date = None) =>
        /\ lastOp.result.kind = "Validation"
        /\ lastOp.result.value = "Goal must have a start_date"
        /\ lastOp.queries = <<>>

(* the goal without start_date has a stored allocation of the account the  *)
(* calculation would query, active on the query date                        *)
C12_Witness ==
    /\ lastOp.op = "calculate_goal_progress_on_date"
    /\ lastOp.args[1].start_date = None
    /\ lastOp.result.kind = "Validation"
    /\ \E a \in goals_allocation :
            /\ a.goal_id = lastOp.args[1].id /\ a.account_id = ""
            /\ a.start_date # None /\ a.end_date # None
            /\ Unwrap(a.start_date) <= lastOp.args[4]
            /\ lastOp.args[4] <= Unwrap(a.end_date)

(* the stored allocations of a goal whose window contains the date *)
ActiveOfGoal(goal_id, query_date) ==
    {a \in goals_allocation :
        /\ a.goal_id = goal_id
        /\ a.start_date # None /\ a.end_date # None
        /\ Unwrap(a.start_date) <= query_date /\ query_date <= Unwrap(a.end_date)}

(* C13: for a goal with a start_date the progress calculation succeeds; in  *)
(* every snapshot init_value = 0 and current_value = growth = the sum of    *)
(* allocated_growth over allocation_details; and when no stored allocation  *)
(* of the goal is active on query_date the snapshot has growth = 0,         *)
(* current_value = 0, init_value = 0 and no allocation details.             *)
C13_ProgressSnapshotShape ==
    (lastOp.op = "calculate_goal_progress_on_date" /\ lastOp.args[1].start_date # None) =>
        /\ lastOp.result.kind = "Ok"
        /\ LET snapshot == lastOp.result.value
               details == snapshot.allocation_details
               total == SumOver([i \in DOMAIN details |-> details[i].allocated_growth],
                                DOMAIN details)
           IN /\ snapshot.init_value = 0
              /\ snapshot.current_value = snapshot.growth
              /\ snapshot.growth = total
              /\ ActiveOfGoal(lastOp.args[1].id, lastOp.args[4]) = {} =>
                    /\ snapshot.growth = 0 /\ snapshot.current_value = 0
                    /\ details = <<>>

(* a snapshot with a detail whose allocated growth is not zero *)
C13_Witness ==
    /\ lastOp.op = "calculate_goal_progress_on_date"
    /\ lastOp.result.kind = "Ok"
    /\ Len(lastOp.result.value.allocation_details) > 0
    /\ lastOp.result.value.growth # 0

(* the zero snapshot of a goal whose stored allocations are all inactive on *)
(* the query date                                                           *)
C13_WitnessNoneActive ==
    /\ lastOp.op = "calculate_goal_progress_on_date"
    /\ lastOp.result.kind = "Ok"
    /\ \E a \in goals_allocation : a.goal_id = lastOp.args[1].id
    /\ ActiveOfGoal(lastOp.args[1].id, lastOp.args[4]) = {}
    /\ lastOp.result.value.allocation_details = <<>>

(* C14: delete_goal returns the number of goal rows it removed, 0 or 1: for *)
(* an id that is not stored it returns 0 and the stored goals are unchanged, *)
(* for a stored id it returns 1 and removes that goal and no other.         *)
C14_DeleteGoalCount ==
    [][lastOp'.op = "delete_goal" =>
         LET goal_id == lastOp'.args[1]
         IN /\ lastOp'.result.kind = "Ok"
            /\ lastOp'.result.value \in {0, 1}
            /\ lastOp'.result.value = Cardinality(goals) - Cardinality(goals')
            /\ ~HasRow(goals, goal_id) =>
                    lastOp'.result.value = 0 /\ goals' = goals
            /\ HasRow(goals, goal_id) =>
                    /\ lastOp'.result.value = 1
                    /\ goals' = goals \ {RowById(goals, goal_id)}]_vars

(* a stored goal has been deleted while another goal stays stored *)
C14_Witness ==
    /\ lastOp.op = "delete_goal"
    /\ lastOp.result = Ok(1)
    /\ ~HasRow(goals, lastOp.args[1])
    /\ goals # {}

(* the operations that only validate or calculate *)
ReadOnlyOps ==
    {"validate_allocation_conflicts", "validate_allocation_percentages",
     "validate_unallocated_balance", "validate_historical_allocation",
     "get_unallocated_balance", "calculate_goal_progress_on_date"}

(* C15: validate_allocation_conflicts, validate_allocation_percentages,     *)
(* validate_unallocated_balance, validate_historical_allocation,            *)
(* get_unallocated_balance and calculate_goal_progress_on_date leave the    *)
(* stored goals, allocations and allocation versions unchanged, whether     *)
(* they succeed or fail.                                                    *)
C15_ValidatorsOnlyRead ==
    [][lastOp'.op \in ReadOnlyOps =>
         /\ goals' = goals
         /\ goals_allocation' = goals_allocation
         /\ allocation_versions' = allocation_versions]_vars

(* a validator has failed over a store that holds goals and allocations *)
C15_Witness ==
    /\ goals # {} /\ goals_allocation # {}
    /\ lastOp.op = "validate_allocation_conflicts"
    /\ lastOp.result.kind = "Validation"

C17_BatchUpsertAllOrNothing ==
    [][(lastOp'.op = "upsert_goal_allocations" /\ "fail_at" \in DOMAIN lastOp') =>
         /\ lastOp'.result.kind = "Store"
         /\ goals_allocation' = goals_allocation]_vars

(* the second statement of a batch failed after the first had written an    *)
(* allocation that was not stored before, and that allocation is not stored *)
C17_Witness ==
    /\ lastOp.op = "upsert_goal_allocations"
    /\ "fail_at" \in DOMAIN lastOp
    /\ lastOp.fail_at = 2
    /\ lastOp.result.kind = "Store"
    /\ ~HasRow(goals_allocation, lastOp.args[1][1].id)

MutatingCommands ==
    {"command_create_goal", "command_update_goal", "command_delete_goal",
     "command_update_goal_allocations", "command_delete_goal_allocation"}

(* C18: every mutating command (create_goal, update_goal, delete_goal,      *)
(* update_goal_allocations, delete_goal_allocation) that succeeds has       *)
(* emitted one resource-changed event naming the resource kind and id, and  *)
(* one whose store operation fails has emitted none.                        *)
C18_MutatingCommandsEmit ==
    lastOp.op \in MutatingCommands =>
        IF lastOp.result.kind = "Ok"
        THEN /\ lastOp.response.kind = "Ok"
             /\ Len(lastOp.events) = 1
             /\ lastOp.events[1].resource_type \in {"goal", "allocation"}
        ELSE /\ lastOp.response.kind = "Err"
             /\ lastOp.events = <<>>

ValidationCommands ==
    {"command_validate_allocation_conflict", "command_validate_unallocated_balance",
     "command_validate_allocation_percentages"}

(* C19: a validation command answers valid = true with an empty message     *)
(* exactly when the validator succeeds and valid = false with the           *)
(* explanation when the validator reports a validation failure; a store     *)
(* failure during the check is returned as an operation error and not as a  *)
(* valid = false response.                                                  *)
C19_ValidationCommandResponses ==
    lastOp.op \in ValidationCommands =>
        /\ lastOp.result.kind = "Ok" =>
                lastOp.response = CmdOk([valid |-> TRUE, message |-> ""])
        /\ lastOp.result.kind = "Validation" =>
                /\ lastOp.response.kind = "Ok"
                /\ ~lastOp.response.value.valid
                /\ lastOp.response.value.message # ""
        /\ lastOp.result.kind = "Store" => lastOp.response.kind = "Err"

(* C20: every allocation stored by a successful upsert_goal_allocations has *)
(* both start_date and end_date set afterwards, whether or not its goal is  *)
(* stored and has dates, so the on-date queries return it for every date    *)
(* inside its window.                                                       *)
C20_UpsertedAllocationsQueryable ==
    (lastOp.op = "upsert_goal_allocations" /\ lastOp.result.kind = "Ok") =>
        \A i \in DOMAIN lastOp.args[1] :
            LET row == RowById(goals_allocation, lastOp.args[1][i].id)
            IN /\ row.start_date # None
               /\ row.end_date # None
               /\ \A d \in Dates :
                    (Unwrap(row.start_date) <= d /\ d <= Unwrap(row.end_date)) =>
                        row \in get_allocations_for_account_on_date(
                                    goals_allocation, row.account_id, d)

(* C11: an upsert that directly repeats the previous upsert, with the same *)
(* allocations and no operation in between, returns the same non-error     *)
(* result and leaves the stored allocations as the first call left them,   *)
(* with exactly one row for each allocation id of the batch.               *)
C11_UpsertIdempotent ==
    [][(lastOp'.op = "upsert_goal_allocations" /\ lastOp'.repeat) =>
            /\ lastOp'.result.kind = "Ok"
            /\ lastOp'.result = lastOp.result
            /\ goals_allocation' = goals_allocation
            /\ \A i \in DOMAIN lastOp'.args[1] :
                    Cardinality({row \in goals_allocation' :
                                    row.id = lastOp'.args[1][i].id}) = 1]_vars

(* the second of two identical upserts of an allocation without dates, for *)
(* a stored goal with dates, over a row that existed before the first      *)
C11_Witness ==
    /\ lastOp.op = "upsert_goal_allocations" /\ lastOp.repeat
    /\ \E i \in DOMAIN lastOp.args[1] :
            /\ lastOp.args[1][i].start_date = None
            /\ HasRow(goals, lastOp.args[1][i].goal_id)
            /\ HasRow(goals_allocation, lastOp.args[1][i].id)
            /\ RowById(goals_allocation, lastOp.args[1][i].id).start_date # None

(* C10: the stored versions of every allocation have pairwise              *)
(* non-overlapping date ranges, at most one of them has no                 *)
(* version_end_date, and get_allocation_versions returns them by           *)
(* version_start_date ascending.  A version without end date extends       *)
(* without limit; ranges that only touch do not overlap.                   *)
VersionsOverlap(v, w) ==
    /\ (w.version_end_date = None \/ v.version_start_date < w.version_end_date[1])
    /\ (v.version_end_date = None \/ w.version_start_date < v.version_end_date[1])

C10_VersionsDisjointAndOrdered ==
    /\ \A v, w \in allocation_versions :
            (v # w /\ v.allocation_id = w.allocation_id) =>
                /\ ~VersionsOverlap(v, w)
                /\ ~(v.version_end_date = None /\ w.version_end_date = None)
    /\ lastOp.op = "get_allocation_versions" =>
            \A i, j \in DOMAIN lastOp.result.value :
                i < j => lastOp.result.value[i].version_start_date
                            <= lastOp.result.value[j].version_start_date

====
